---- MODULE Spec2Model ----
(***************************************************************************)
(* Model of switcher-rest-api.py: a Bottle application with three routes   *)
(*   GET  /devices/temperature   (get_device_temperature)                  *)
(*   GET  /devices/state         (get_device_state)                        *)
(*   POST /breeze/control        (post_breeze_control)                     *)
(* Requests are served one at a time.  A Python string is the sequence of   *)
(* its code points, so that str.upper() is computed, not assumed; an ASCII *)
(* character is written as itself, any other code point as "U+XXXX".       *)
(***************************************************************************)
EXTENDS Integers, Sequences, FiniteSets, TLC

\* ------------------------------------------------------------------ bounds
\* number of HTTP requests served in one behaviour
MaxRequests == 2
\* number of device announcements delivered to the callback in one scan
MaxAnnounce == 2

\* ------------------------------------------------------- program constants
\* scan_devices(callback, delay=10)
ScanDelay == 10
\* temp = 23 in the OFF branch
DefaultTemp == 23

\* ------------------------------------------------------------ JSON values
Absent == [t |-> "absent", s |-> <<>>, n |-> 0]
Str(chars) == [t |-> "str", s |-> chars, n |-> 0]
Num(k) == [t |-> "num", s |-> <<>>, n |-> k]

\* str.upper() on one code point: the full Unicode upper-case mapping, which
\* may give several code points (the table holds the alphabet of the bodies
\* below: ASCII, and the code points whose mapping is special)
UpperChar(c) ==
    CASE c = "a" -> <<"A">> [] c = "b" -> <<"B">> [] c = "c" -> <<"C">> [] c = "d" -> <<"D">>
      [] c = "e" -> <<"E">> [] c = "f" -> <<"F">> [] c = "g" -> <<"G">> [] c = "h" -> <<"H">>
      [] c = "i" -> <<"I">> [] c = "j" -> <<"J">> [] c = "k" -> <<"K">> [] c = "l" -> <<"L">>
      [] c = "m" -> <<"M">> [] c = "n" -> <<"N">> [] c = "o" -> <<"O">> [] c = "p" -> <<"P">>
      [] c = "q" -> <<"Q">> [] c = "r" -> <<"R">> [] c = "s" -> <<"S">> [] c = "t" -> <<"T">>
      [] c = "u" -> <<"U">> [] c = "v" -> <<"V">> [] c = "w" -> <<"W">> [] c = "x" -> <<"X">>
      [] c = "y" -> <<"Y">> [] c = "z" -> <<"Z">>
      [] c = "U+00DF" -> <<"S", "S">>
      [] c = "U+00E9" -> <<"U+00C9">>
      [] c = "U+0131" -> <<"I">>
      [] c = "U+0149" -> <<"U+02BC", "N">>
      [] c = "U+017F" -> <<"S">>
      [] c = "U+FB00" -> <<"F", "F">>
      [] c = "U+FB01" -> <<"F", "I">>
      [] c = "U+FB02" -> <<"F", "L">>
      [] OTHER -> <<c>>

\* str.upper(): the mappings of the code points, concatenated
RECURSIVE Upper(_)
Upper(chars) ==
    IF chars = <<>> THEN <<>> ELSE UpperChar(Head(chars)) \o Upper(Tail(chars))

\* ------------------------------------------------- library enumerations
S_ON == <<"O", "N">>
S_OFF == <<"O", "F", "F">>
S_COOL == <<"C", "O", "O", "L">>
S_HEAT == <<"H", "E", "A", "T">>
S_AUTO == <<"A", "U", "T", "O">>
S_DRY == <<"D", "R", "Y">>
S_FAN == <<"F", "A", "N">>
S_LOW == <<"L", "O", "W">>
S_MEDIUM == <<"M", "E", "D", "I", "U", "M">>
S_HIGH == <<"H", "I", "G", "H">>

\* member names of DeviceState, ThermostatMode, ThermostatFanLevel
DeviceStateNames == {S_ON, S_OFF}
ThermostatModeNames == {S_AUTO, S_DRY, S_FAN, S_COOL, S_HEAT}
ThermostatFanLevelNames == {S_LOW, S_MEDIUM, S_HIGH, S_AUTO}

\* ip default of data.get("ip", "switcher-breeze")
DefaultIp == <<"s", "w", "i", "t", "c", "h", "e", "r", "-", "b", "r", "e", "e", "z", "e">>

\* ------------------------------------------------------- request bodies
Keys == {"device_id", "device_key", "remote_id", "state", "mode", "temp", "fan", "ip"}
required_keys == <<"device_id", "device_key", "remote_id", "state">>
on_keys == <<"mode", "temp", "fan">>

\* k in data
Has(data, k) == data[k].t # "absent"

EmptyDict == [k \in Keys |-> Absent]

\* remote ids the remote manager knows / one it does not know
KnownRemote == <<"R", "1">>
UnknownRemote == <<"R", "9">>
KnownRemotes == {KnownRemote}

StateValues ==
    { Absent, Str(S_ON), Str(<<"o", "n">>), Str(S_OFF), Str(<<"o", "F", "f">>),
      Str(<<"o", "U+FB00">>), Str(<<"o", "n", "e">>), Num(1) }
ModeValues == { Absent, Str(<<"c", "o", "o", "l">>), Str(<<"w", "a", "r", "m">>), Num(3) }
TempValues == { Absent, Num(25) }
FanValues ==
    { Absent, Str(<<"l", "o", "w">>), Str(<<"h", "U+0131", "g", "h">>),
      Str(<<"t", "u", "r", "b", "o">>) }

Bodies ==
    [ device_id : {Absent, Str(<<"d", "1">>)},
      device_key : {Absent, Str(<<"k", "1">>)},
      remote_id : {Absent, Str(KnownRemote), Str(UnknownRemote)},
      state : StateValues,
      mode : ModeValues,
      temp : TempValues,
      fan : FanValues,
      ip : {Absent, Str(<<"1", "0", ".", "0", ".", "0", ".", "5">>)} ]

\* a key name as the string it is
KeyChars(k) ==
    CASE k = "device_id" -> <<"d", "e", "v", "i", "c", "e", "_", "i", "d">>
      [] k = "device_key" -> <<"d", "e", "v", "i", "c", "e", "_", "k", "e", "y">>
      [] k = "remote_id" -> <<"r", "e", "m", "o", "t", "e", "_", "i", "d">>
      [] k = "state" -> <<"s", "t", "a", "t", "e">>

\* request.json: None, an object, a number (a boolean behaves as 0 / 1), a
\* list of strings, or a string
JsonBody(kind, data, items, text, num) ==
    [kind |-> kind, data |-> data, items |-> items, text |-> text, num |-> num]
NoJsonBody == JsonBody("none", EmptyDict, <<>>, <<>>, 0)
ObjectBody(data) == JsonBody("object", data, <<>>, <<>>, 0)
NumberBody(k) == JsonBody("number", EmptyDict, <<>>, <<>>, k)
ListBody(items) == JsonBody("list", EmptyDict, items, <<>>, 0)
StringBody(text) == JsonBody("string", EmptyDict, <<>>, text, 0)

AllKeysText ==
    KeyChars("device_id") \o <<" ">> \o KeyChars("device_key") \o <<" ">>
        \o KeyChars("remote_id") \o <<" ">> \o KeyChars("state")

NonObjectBodies ==
    { NoJsonBody, NumberBody(0), NumberBody(1),
      ListBody(<<>>), ListBody(<<"state">>), ListBody(required_keys),
      StringBody(<<>>), StringBody(KeyChars("state")), StringBody(AllKeysText) }

\* ------------------------------------------------------------- responses
NoVal == Absent
Body(key, msg, arg, val) == [key |-> key, msg |-> msg, arg |-> arg, val |-> val]
NoBody == Body("", "", <<>>, NoVal)
Response(status, body) == [status |-> status, body |-> body]
NoResponse == Response(0, NoBody)

MsgMissingRequired == "Missing required keys"
MsgInvalidState == "Invalid state, must be 'ON' or 'OFF'"
MsgMissingForOn == "Missing required key for ON state"
MsgNoDevices == "No devices found"

\* an exception that reaches Bottle is answered with its default error page
ServerError(exc) == Response(500, Body("exception", exc, <<>>, NoVal))

\* --------------------------------------------------- post_breeze_control
\* not data
Falsy(body) ==
    \/ body.kind = "none"
    \/ body.kind = "object" /\ body.data = EmptyDict
    \/ body.kind = "number" /\ body.num = 0
    \/ body.kind = "list" /\ body.items = <<>>
    \/ body.kind = "string" /\ body.text = <<>>

\* k in data raises TypeError: the body is not iterable
InRaises(body) == body.kind = "number"

\* sub in text, for strings
IsSubstring(sub, text) ==
    \E i \in 0..(Len(text) - Len(sub)) : SubSeq(text, i + 1, i + Len(sub)) = sub

\* k in data: a key of an object, an element of a list, a substring of a string
In(k, body) ==
    CASE body.kind = "object" -> Has(body.data, k)
      [] body.kind = "list" -> \E i \in 1..Len(body.items) : body.items[i] = k
      [] body.kind = "string" -> IsSubstring(KeyChars(k), body.text)
      [] OTHER -> FALSE

\* all(k in data for k in required_keys)
AllRequiredPresent(body) == \A i \in 1..Len(required_keys) : In(required_keys[i], body)

\* not data or not all(...), where it does not raise
MissingRequired(body) == Falsy(body) \/ ~AllRequiredPresent(body)

\* data["state"] raises TypeError: a list or a string is indexed by a string
SubscriptRaises(body) == body.kind \in {"list", "string"}

\* state_str not in ["ON", "OFF"]
InvalidState(state_str) == state_str \notin {S_ON, S_OFF}

\* indices of the keys of ["mode", "temp", "fan"] that are not in data
MissingOn(data) == {i \in 1..Len(on_keys) : ~Has(data, on_keys[i])}

\* mutation of FirstMissingOnKey: the loop reports the last absent key
LastMissingOnKey(data) == on_keys[CHOOSE i \in MissingOn(data) : \A j \in MissingOn(data) : i >= j]

\* the key at which the for loop returns: the first one not in data
FirstMissingOnKey(data) == on_keys[CHOOSE i \in MissingOn(data) : \A j \in MissingOn(data) : i <= j]

NoArgs ==
    [ device_type |-> "", device_ip |-> Absent, device_id |-> Absent, device_key |-> Absent,
      remote_id |-> Absent, device_state |-> <<>>, mode |-> <<>>, temperature |-> Absent,
      fan_level |-> <<>> ]

\* the arguments of control_breeze(...) built by the handler
CallArgs(data, device_state, mode, temp, fan_level) ==
    [ device_type |-> "BREEZE",
      device_ip |-> IF Has(data, "ip") THEN data.ip ELSE Str(DefaultIp),
      device_id |-> data.device_id,
      device_key |-> data.device_key,
      remote_id |-> data.remote_id,
      device_state |-> device_state,
      mode |-> mode,
      temperature |-> temp,
      fan_level |-> fan_level ]

\* mutation of OffArgs: a temp given in the body overrides the default
OffArgsFromBody(data, device_state) ==
    CallArgs(data, device_state, S_COOL,
             IF Has(data, "temp") THEN data.temp ELSE Num(DefaultTemp), S_MEDIUM)

\* else branch: mode = COOL, fan_level = MEDIUM, temp = 23
OffArgs(data, device_state) == CallArgs(data, device_state, S_COOL, Num(DefaultTemp), S_MEDIUM)

\* if branch: ThermostatMode[data["mode"].upper()], ThermostatFanLevel[data["fan"].upper()], data["temp"]
OnArgs(data, device_state) ==
    CallArgs(data, device_state, Upper(data.mode.s), data.temp, Upper(data.fan.s))

Reply(r) == [kind |-> "reply", resp |-> r, args |-> NoArgs]
Raise(exc) == [kind |-> "reply", resp |-> ServerError(exc), args |-> NoArgs]
Call(args) == [kind |-> "call", resp |-> NoResponse, args |-> args]

\* mutation of OnBranch: the presence of mode, temp, fan is not checked
OnBranchUnchecked(data, device_state) == Call(OnArgs(data, device_state))

\* the ON branch of the handler, after the state has been accepted
OnBranch(data, device_state) ==
    IF MissingOn(data) # {}
    THEN Reply(Response(400, Body("error", MsgMissingForOn, <<FirstMissingOnKey(data)>>, NoVal)))
    ELSE IF data.mode.t # "str" THEN Raise("AttributeError")
    ELSE IF Upper(data.mode.s) \notin ThermostatModeNames THEN Raise("KeyError")
    ELSE IF data.fan.t # "str" THEN Raise("AttributeError")
    ELSE IF Upper(data.fan.s) \notin ThermostatFanLevelNames THEN Raise("KeyError")
    ELSE Call(OnArgs(data, device_state))

\* the handler up to, and not including, asyncio.run(control_breeze(...))
Validate(body) ==
    IF ~Falsy(body) /\ InRaises(body) THEN Raise("TypeError")
    ELSE IF MissingRequired(body)
    THEN Reply(Response(400, Body("error", MsgMissingRequired, required_keys, NoVal)))
    ELSE IF SubscriptRaises(body) THEN Raise("TypeError")
    ELSE IF body.data.state.t # "str" THEN Raise("AttributeError")
    ELSE LET state_str == Upper(body.data.state.s) IN
         IF InvalidState(state_str)
         THEN Reply(Response(400, Body("error", MsgInvalidState, <<>>, NoVal)))
         ELSE IF state_str = S_ON
              THEN OnBranch(body.data, state_str)
              ELSE Call(OffArgs(body.data, state_str))

\* ---------------------------------------------------------- control_breeze
\* remote_manager.get_remote(remote_id) finds the remote
RemoteKnown(remote_id) == remote_id.t = "str" /\ remote_id.s \in KnownRemotes

NoCommand ==
    [ remote |-> <<>>, state |-> <<>>, mode |-> <<>>, temperature |-> Absent,
      fan_level |-> <<>>, swing |-> "" ]

\* api.control_breeze_device(remote, device_state, mode, temperature, fan_level, ThermostatSwing.ON)
Command(remote, args) ==
    [ remote |-> remote, state |-> args.device_state, mode |-> args.mode,
      temperature |-> args.temperature, fan_level |-> args.fan_level, swing |-> "ON" ]

\* mutation of AfterOpen: the state fetch is skipped
AfterOpenSkipsFetch == "get_remote"

\* mutation of AfterGetRemote: a failed lookup does not stop the sequence
AfterGetRemoteContinues(known) == "control"

\* where control_breeze goes after a step of the async-with body
AfterOpen == "get_breeze_state"
AfterGetState(ok) == IF ok THEN "get_remote" ELSE "api_exit"
AfterGetRemote(known) == IF known THEN "control" ELSE "api_exit"

\* ------------------------------------------------------------- discovery
\* device snapshots announced on the network; a device that is no thermostat
\* has no temperature field
Devices ==
    { [device_state |-> S_ON, has_temperature |-> TRUE, temperature |-> 0],
      [device_state |-> S_ON, has_temperature |-> TRUE, temperature |-> 21],
      [device_state |-> S_OFF, has_temperature |-> TRUE, temperature |-> 24],
      [device_state |-> S_ON, has_temperature |-> FALSE, temperature |-> 0],
      [device_state |-> S_OFF, has_temperature |-> FALSE, temperature |-> 0] }

\* str(DeviceState.X), an Enum member
StrDeviceState(name) ==
    <<"D", "e", "v", "i", "c", "e", "S", "t", "a", "t", "e", ".">> \o name

\* a dict with one item; {} is the empty set
Dict(key, val) == {<<key, val>>}

\* asdict(device)[key] raises KeyError
LookupFails(route, d) == route = "temperature" /\ ~d.has_temperature

\* result = {"temperature": asdict(device)["temperature"]}  /  {"state": str(asdict(device)["device_state"])}
CallbackResult(route, d) ==
    IF route = "temperature"
    THEN Dict("temperature", Num(d.temperature))
    ELSE Dict("state", Str(StrDeviceState(d.device_state)))

\* if result:
Truthy(res) == res # {}

\* if result: return result / response.status = 404; return {"error": ...}
DiscoveryResponse(res) ==
    IF Truthy(res)
    THEN LET kv == CHOOSE kv \in res : TRUE IN Response(200, Body(kv[1], "", <<>>, kv[2]))
    ELSE Response(404, Body("error", MsgNoDevices, <<>>, NoVal))

\* ------------------------------------------------------------------ state
VARIABLES
    pc,         \* where the server is: "idle", "entering", "failing", "scanning", "cleanup", a step of control_breeze, "done"
    req,        \* the request being served: route, whether it has a JSON body, the body
    resp,       \* the HTTP response of the request (status 0: none yet)
    result,     \* the nonlocal result dict of the discovery handlers
    clock,      \* time units of asyncio.sleep(delay) elapsed
    seen,       \* devices handed to the callback during this request, in order
    listening,  \* the SwitcherBridge context is entered
    args,       \* the arguments of control_breeze for this request
    session,    \* the SwitcherApi context: "none", "open", "closed"
    trace,      \* steps of control_breeze executed for this request, in order
    command,    \* the control command given to the device for this request
    exc,        \* the exception raised inside control_breeze ("" if none)
    nreq,       \* requests received so far
    nvalid,     \* POST requests that reached asyncio.run(control_breeze(...))
    nsent,      \* control commands issued so far
    abandoned   \* bridge contexts of answered requests that were never left

vars == << pc, req, resp, result, clock, seen, listening, args, session, trace,
           command, exc, nreq, nvalid, nsent, abandoned >>

discoveryVars == << result, clock, seen, listening >>
controlVars == << args, session, trace, command, exc >>
counters == << nreq, nvalid, nsent, abandoned >>

Request(route, body) ==
    [ route |-> route, kind |-> body.kind, data |-> body.data, items |-> body.items,
      text |-> body.text, num |-> body.num ]
NoRequest == Request("", NoJsonBody)

Init ==
    /\ pc = "idle"
    /\ req = NoRequest
    /\ resp = NoResponse
    /\ result = {}
    /\ clock = 0
    /\ seen = <<>>
    /\ listening = FALSE
    /\ args = NoArgs
    /\ session = "none"
    /\ trace = <<>>
    /\ command = NoCommand
    /\ exc = ""
    /\ nreq = 0
    /\ nvalid = 0
    /\ nsent = 0
    /\ abandoned = 0

\* ------------------------------------------------------ discovery routes
\* the request arrives: result = {}, and asyncio.run starts scan_devices, whose
\* first step, entering the SwitcherBridge context, is an await of its own
StartScan(route) ==
    /\ pc = "idle"
    /\ nreq < MaxRequests
    /\ nreq' = nreq + 1
    /\ req' = Request(route, NoJsonBody)
    /\ result' = {}
    /\ clock' = 0
    /\ seen' = <<>>
    /\ listening' = FALSE
    /\ pc' = "entering"
    /\ UNCHANGED << resp, controlVars, nvalid, nsent, abandoned >>

get_device_temperature == StartScan("temperature")

get_device_state == StartScan("state")

\* async with SwitcherBridge(callback): the entry opens the listening sockets.
\* It completes and the sleep starts, or it raises OSError, as it does when
\* the sockets cannot be bound, an abandoned bridge of an earlier request
\* that still holds them being one cause. The OSError ends the scan task;
\* asyncio.run still runs the event loop while it unwinds
BridgeEnter(ok) ==
    /\ pc = "entering"
    /\ IF ok
       THEN /\ listening' = TRUE
            /\ pc' = "scanning"
       ELSE /\ listening' = FALSE
            /\ pc' = "failing"
    /\ UNCHANGED << req, resp, result, clock, seen, controlVars, counters >>

\* the OSError of the entry leaves asyncio.run; the handler catches
\* SystemExit only, so it leaves the handler too and the answer is 500
EntryErrorPropagates ==
    /\ pc = "failing"
    /\ resp' = ServerError("OSError")
    /\ pc' = "done"
    /\ UNCHANGED << req, result, clock, seen, listening, controlVars, counters >>

\* a time unit of await asyncio.sleep(delay) passes
Tick ==
    /\ pc = "scanning"
    /\ clock < ScanDelay
    /\ clock' = clock + 1
    /\ UNCHANGED << pc, req, resp, result, seen, listening, controlVars, counters >>

\* a device is announced while the scan is running, or on a socket already
\* open while the bridge is still being entered or after its entry has
\* raised and asyncio.run is unwinding
Announced(d) ==
    /\ \/ pc \in {"entering", "failing"}
       \/ pc = "scanning" /\ listening
    /\ clock < ScanDelay
    /\ Len(seen) < MaxAnnounce
    /\ seen' = Append(seen, d)

\* callback: result is set and SystemExit stops the event loop (replacing the
\* OSError of a failed entry, if one was on its way out); asyncio.run
\* then runs the loop once more to cancel the scan task, and announcements
\* already queued in the loop are handled there first
callback(d) ==
    /\ Announced(d)
    /\ ~LookupFails(req.route, d)
    /\ result' = CallbackResult(req.route, d)
    /\ pc' = "cleanup"
    /\ UNCHANGED << req, resp, clock, listening, controlVars, counters >>

\* an announcement that was queued behind the one that stopped the loop
Queued(d) ==
    /\ pc = "cleanup"
    /\ Len(seen) < MaxAnnounce
    /\ seen' = Append(seen, d)

\* callback during the cleanup: result is overwritten, and the second
\* SystemExit ends the cleanup before the scan task is cancelled, so the
\* bridge context is never left; the handler swallows it and answers
callbackInCleanup(d) ==
    /\ Queued(d)
    /\ ~LookupFails(req.route, d)
    /\ result' = CallbackResult(req.route, d)
    /\ resp' = DiscoveryResponse(result')
    /\ pc' = "done"
    /\ UNCHANGED << req, clock, listening, controlVars, counters >>

\* callback during the cleanup: the KeyError is reported by the event loop
callbackInCleanupKeyErrorLogged(d) ==
    /\ Queued(d)
    /\ LookupFails(req.route, d)
    /\ UNCHANGED << pc, req, resp, result, clock, listening, controlVars, counters >>

\* the cleanup cancels the scan task, the bridge is left, the first
\* SystemExit reaches the handler, which swallows it and answers
CleanupDone ==
    /\ pc = "cleanup"
    /\ listening' = FALSE
    /\ resp' = DiscoveryResponse(result)
    /\ pc' = "done"
    /\ UNCHANGED << req, result, clock, seen, controlVars, counters >>

\* callback: asdict(device)["temperature"] raises KeyError before result is
\* set and before SystemExit; the event loop that invoked the callback reports
\* the error, and the scan goes on
callbackKeyErrorLogged(d) ==
    /\ Announced(d)
    /\ LookupFails(req.route, d)
    /\ UNCHANGED << pc, req, resp, result, clock, listening, controlVars, counters >>

\* the sleep ends, the bridge is left, asyncio.run returns, the handler answers
ScanTimeout ==
    /\ pc = "scanning"
    /\ clock = ScanDelay
    /\ listening' = FALSE
    /\ resp' = DiscoveryResponse(result)
    /\ pc' = "done"
    /\ UNCHANGED << req, result, clock, seen, controlVars, counters >>

\* ----------------------------------------------------- POST /breeze/control
post_breeze_control(body) ==
    /\ pc = "idle"
    /\ nreq < MaxRequests
    /\ nreq' = nreq + 1
    /\ req' = Request("control", body)
    /\ LET out == Validate(body) IN
         IF out.kind = "call"
         THEN /\ args' = out.args
              /\ nvalid' = nvalid + 1
              /\ pc' = "api_enter"
              /\ UNCHANGED resp
         ELSE /\ resp' = out.resp
              /\ pc' = "done"
              /\ UNCHANGED << args, nvalid >>
    /\ UNCHANGED << discoveryVars, session, trace, command, exc, nsent, abandoned >>

\* async with SwitcherApi(device_type, device_ip, device_id, device_key) as api
ApiEnter(ok) ==
    /\ pc = "api_enter"
    /\ IF ok
       THEN /\ session' = "open"
            /\ trace' = Append(trace, "open")
            /\ pc' = AfterOpen
            /\ UNCHANGED exc
       ELSE /\ exc' = "ConnectError"
            /\ pc' = "unwound"
            /\ UNCHANGED << session, trace >>
    /\ UNCHANGED << req, resp, discoveryVars, args, command, counters >>

\* await api.get_breeze_state()
GetBreezeState(ok) ==
    /\ pc = "get_breeze_state"
    /\ trace' = Append(trace, "get_breeze_state")
    /\ exc' = IF ok THEN exc ELSE "StateError"
    /\ pc' = AfterGetState(ok)
    /\ UNCHANGED << req, resp, discoveryVars, args, session, command, counters >>

\* remote = remote_manager.get_remote(remote_id)
GetRemote ==
    /\ pc = "get_remote"
    /\ trace' = Append(trace, "get_remote")
    /\ exc' = IF RemoteKnown(args.remote_id) THEN exc ELSE "RemoteError"
    /\ pc' = AfterGetRemote(RemoteKnown(args.remote_id))
    /\ UNCHANGED << req, resp, discoveryVars, args, session, command, counters >>

\* await api.control_breeze_device(remote, device_state, mode, temperature, fan_level, ThermostatSwing.ON)
ControlBreezeDevice(ok) ==
    /\ pc = "control"
    /\ trace' = Append(trace, "control")
    /\ command' = Command(args.remote_id.s, args)
    /\ nsent' = nsent + 1
    /\ exc' = IF ok THEN exc ELSE "ControlError"
    /\ pc' = "api_exit"
    /\ UNCHANGED << req, resp, discoveryVars, args, session, nreq, nvalid, abandoned >>

\* leaving the async with block, normally or by the exception
ApiExit ==
    /\ pc = "api_exit"
    /\ session' = "closed"
    /\ trace' = Append(trace, "close")
    /\ pc' = "unwound"
    /\ UNCHANGED << req, resp, discoveryVars, args, command, exc, counters >>

\* asyncio.run returns: return {"status": "success"}
ReturnSuccess ==
    /\ pc = "unwound"
    /\ exc = ""
    /\ resp' = Response(200, Body("status", "success", <<>>, NoVal))
    /\ pc' = "done"
    /\ UNCHANGED << req, discoveryVars, controlVars, counters >>

\* asyncio.run raises: nothing in the handler catches it
Propagate ==
    /\ pc = "unwound"
    /\ exc # ""
    /\ resp' = ServerError(exc)
    /\ pc' = "done"
    /\ UNCHANGED << req, discoveryVars, controlVars, counters >>

\* the response is sent; of the request only a bridge context that
\* asyncio.run never left stays behind, with its event loop closed
Finish ==
    /\ pc = "done"
    /\ pc' = "idle"
    /\ req' = NoRequest
    /\ resp' = NoResponse
    /\ result' = {}
    /\ clock' = 0
    /\ seen' = <<>>
    /\ abandoned' = IF listening THEN abandoned + 1 ELSE abandoned
    /\ listening' = FALSE
    /\ args' = NoArgs
    /\ session' = "none"
    /\ trace' = <<>>
    /\ command' = NoCommand
    /\ exc' = ""
    /\ UNCHANGED << nreq, nvalid, nsent >>

\* the garbage collector destroys the coroutine of an abandoned scan, which
\* is the only time its bridge context is left; no request is affected
CollectAbandoned ==
    /\ abandoned > 0
    /\ abandoned' = abandoned - 1
    /\ UNCHANGED << pc, req, resp, discoveryVars, controlVars, nreq, nvalid, nsent >>

Next ==
    \/ get_device_temperature
    \/ get_device_state
    \/ \E ok \in BOOLEAN : BridgeEnter(ok)
    \/ EntryErrorPropagates
    \/ Tick
    \/ \E d \in Devices : callback(d)
    \/ \E d \in Devices : callbackInCleanup(d)
    \/ \E d \in Devices : callbackInCleanupKeyErrorLogged(d)
    \/ CleanupDone
    \/ \E d \in Devices : callbackKeyErrorLogged(d)
    \/ ScanTimeout
    \/ \E body \in NonObjectBodies : post_breeze_control(body)
    \/ \E data \in Bodies : post_breeze_control(ObjectBody(data))
    \/ \E ok \in BOOLEAN : ApiEnter(ok)
    \/ \E ok \in BOOLEAN : GetBreezeState(ok)
    \/ GetRemote
    \/ \E ok \in BOOLEAN : ControlBreezeDevice(ok)
    \/ ApiExit
    \/ ReturnSuccess
    \/ Propagate
    \/ Finish
    \/ CollectAbandoned

Spec == Init /\ [][Next]_vars

\* ======================================================== properties
\* vocabulary of the properties, stated without the handler's own operators
LowerChar(c) ==
    CASE c = "A" -> "a" [] c = "B" -> "b" [] c = "C" -> "c" [] c = "D" -> "d"
      [] c = "E" -> "e" [] c = "F" -> "f" [] c = "G" -> "g" [] c = "H" -> "h"
      [] c = "I" -> "i" [] c = "J" -> "j" [] c = "K" -> "k" [] c = "L" -> "l"
      [] c = "M" -> "m" [] c = "N" -> "n" [] c = "O" -> "o" [] c = "P" -> "p"
      [] c = "Q" -> "q" [] c = "R" -> "r" [] c = "S" -> "s" [] c = "T" -> "t"
      [] c = "U" -> "u" [] c = "V" -> "v" [] c = "W" -> "w" [] c = "X" -> "x"
      [] c = "Y" -> "y" [] c = "Z" -> "z" [] OTHER -> c

\* Unicode case folding of one code point
CaseFoldChar(c) ==
    CASE c = "U+00DF" -> <<"s", "s">>
      [] c = "U+00C9" -> <<"U+00E9">>
      [] c = "U+017F" -> <<"s">>
      [] c = "U+FB00" -> <<"f", "f">>
      [] c = "U+FB01" -> <<"f", "i">>
      [] c = "U+FB02" -> <<"f", "l">>
      [] OTHER -> <<LowerChar(c)>>

RECURSIVE CaseFold(_)
CaseFold(chars) ==
    IF chars = <<>> THEN <<>> ELSE CaseFoldChar(Head(chars)) \o CaseFold(Tail(chars))

\* chars is word in some casing: the two are equal up to case
IsCasingOf(chars, word) == CaseFold(chars) = CaseFold(word)

IsOn(v) == v.t = "str" /\ IsCasingOf(v.s, S_ON)
IsOff(v) == v.t = "str" /\ IsCasingOf(v.s, S_OFF)
NamesOneOf(v, names) == v.t = "str" /\ Upper(v.s) \in names

IsDiscovery == req.route \in {"temperature", "state"}
IsControl == req.route = "control"
Answered == pc = "done"

FourKeysPresent ==
    /\ req.kind = "object"
    /\ req.data.device_id.t # "absent"
    /\ req.data.device_key.t # "absent"
    /\ req.data.remote_id.t # "absent"
    /\ req.data.state.t # "absent"

MissingRequiredReply ==
    Response(400, Body("error", "Missing required keys",
                       <<"device_id", "device_key", "remote_id", "state">>, NoVal))

InvalidStateReply ==
    Response(400, Body("error", "Invalid state, must be 'ON' or 'OFF'", <<>>, NoVal))

SuccessReply == Response(200, Body("status", "success", <<>>, NoVal))

NoDevicesReply == Response(404, Body("error", "No devices found", <<>>, NoVal))

\* the 200 answer carrying the attribute of device d on the current route
AttributeReply(d) ==
    IF req.route = "temperature"
    THEN Response(200, Body("temperature", "", <<>>, Num(d.temperature)))
    ELSE Response(200, Body("state", "", <<>>,
                            Str(<<"D", "e", "v", "i", "c", "e", "S", "t", "a", "t", "e", ".">>
                                \o d.device_state)))

FullSequence == <<"open", "get_breeze_state", "get_remote", "control", "close">>

Count(seq, x) == Cardinality({i \in 1..Len(seq) : seq[i] = x})

\* ---------------------------------------------------------------- C1
\* C1: on both discovery routes, once a device has been reported to the
\* callback the scan is over, no other device is reported to the callback,
\* and the answer is HTTP 200 with the attribute of the first device reported.
C1_FirstDeviceAnswered ==
    (IsDiscovery /\ Len(seen) >= 1) =>
        /\ Len(seen) = 1
        /\ pc \in {"cleanup", "done"}
        /\ Answered => resp = AttributeReply(seen[1])

\* ---------------------------------------------------------------- C2
\* C2: a discovery request with no device reported ends when the window has
\* elapsed, with 404 "No devices found"; every answered discovery request is
\* either 200 with a device seen or 404 with none seen.
C2_TwoOutcomes ==
    (IsDiscovery /\ Answered) =>
        /\ seen = <<>> => (clock = ScanDelay /\ resp = NoDevicesReply)
        /\ \/ (resp.status = 200 /\ seen # <<>>)
           \/ (resp = NoDevicesReply /\ seen = <<>>)

\* ---------------------------------------------------------------- C3
\* C3: a control request without a JSON body, with an empty one, or lacking
\* any of the four required keys is answered 400 with the message listing
\* all four keys, whatever else the body holds.
C3_MissingRequiredKeys ==
    (IsControl /\ Answered /\ ~FourKeysPresent) => resp = MissingRequiredReply

\* ---------------------------------------------------------------- C4
\* C4: with the four required keys present, a state that is ON or OFF in any
\* casing passes the state check as that power state, and every other state
\* value is answered 400 "Invalid state, must be 'ON' or 'OFF'".
C4_StateCaseInsensitive ==
    (IsControl /\ Answered /\ FourKeysPresent) =>
        /\ (IsOn(req.data.state) \/ IsOff(req.data.state)) =>
              /\ resp # InvalidStateReply
              /\ args # NoArgs =>
                    args.device_state = (IF IsOn(req.data.state) THEN S_ON ELSE S_OFF)
        /\ ~(IsOn(req.data.state) \/ IsOff(req.data.state)) => resp = InvalidStateReply

\* ---------------------------------------------------------------- C5
\* C5: with state ON in any casing and one of mode, temp, fan absent, the
\* answer is 400 naming the first absent key in the order mode, temp, fan.
C5_MissingOnKeyNamed ==
    ( /\ IsControl /\ Answered /\ FourKeysPresent /\ IsOn(req.data.state)
      /\ \E k \in {"mode", "temp", "fan"} : req.data[k].t = "absent" ) =>
        resp = Response(400, Body("error", "Missing required key for ON state",
                   << IF req.data.mode.t = "absent" THEN "mode"
                      ELSE IF req.data.temp.t = "absent" THEN "temp" ELSE "fan" >>, NoVal))

C5_Witness ==
    /\ IsControl /\ Answered /\ FourKeysPresent
    /\ req.data.state = Str(<<"o", "n">>)
    /\ req.data.mode.t # "absent"
    /\ req.data.temp.t = "absent"
    /\ req.data.fan.t = "absent"
    /\ resp.status = 400
    /\ resp.body.arg = <<"temp">>

\* ---------------------------------------------------------------- C6
\* C6: with state OFF in any casing and the four required keys present the
\* request is never rejected, whatever mode/temp/fan the body holds: the
\* control call is made with mode COOL, fan MEDIUM, temp 23 and state OFF,
\* any command sent carries exactly these, and the answer is 200 success
\* unless a step of the control sequence itself failed.
C6_OffUsesDefaults ==
    (IsControl /\ FourKeysPresent /\ IsOff(req.data.state)) =>
        /\ args.device_state = S_OFF
        /\ args.mode = S_COOL /\ args.fan_level = S_MEDIUM /\ args.temperature = Num(23)
        /\ command # NoCommand =>
              /\ command.state = S_OFF /\ command.mode = S_COOL
              /\ command.fan_level = S_MEDIUM /\ command.temperature = Num(23)
        /\ Answered =>
              /\ resp.status # 400
              /\ exc = "" => (resp = SuccessReply /\ command # NoCommand)
              /\ exc # "" => resp.status = 500

C6_Witness ==
    /\ IsControl /\ Answered /\ FourKeysPresent
    /\ req.data.state = Str(<<"o", "F", "f">>)
    /\ req.data.mode = Str(<<"w", "a", "r", "m">>)
    /\ req.data.temp = Num(25)
    /\ req.data.fan.t = "absent"
    /\ resp = SuccessReply
    /\ command.temperature = Num(23)
    /\ command.mode = S_COOL

\* ---------------------------------------------------------------- C7
\* C7: a control request that is answered without any step of the control
\* sequence having failed or run was rejected by validation, and every such
\* rejection is a 400 with a JSON error body, never a 500.
C7_ValidationAlways400 ==
    (IsControl /\ Answered /\ args = NoArgs) =>
        /\ resp.status = 400
        /\ resp.body.key = "error"

\* ---------------------------------------------------------------- C8
\* C8: the control sequence runs its steps in the order open, state fetch,
\* remote lookup, control command, close, each at most once, cut short only
\* by a failure; the session is open exactly between open and close; the one
\* command carries the remote of remote_id, the requested power state, mode,
\* temperature and fan level, and swing ON; 200 success is answered only
\* after all five steps, with the session closed.
C8_ControlSequenceOrder ==
    IsControl =>
        /\ \/ \E n \in 0..5 : trace = SubSeq(FullSequence, 1, n)
           \/ \E n \in 1..4 : trace = Append(SubSeq(FullSequence, 1, n), "close")
        /\ session = "open" <=> (Count(trace, "open") = 1 /\ Count(trace, "close") = 0)
        /\ session = "closed" <=> Count(trace, "close") = 1
        /\ (exc = "" /\ pc \in {"unwound", "done"} /\ args # NoArgs) => trace = FullSequence
        /\ command # NoCommand =>
              /\ Count(trace, "control") = 1
              /\ command.remote = req.data.remote_id.s
              /\ command.swing = "ON"
              /\ command = Command(args.remote_id.s, args)
              /\ IF IsOn(req.data.state)
                 THEN /\ command.state = S_ON
                      /\ command.mode \in ThermostatModeNames
                      /\ command.mode = Upper(req.data.mode.s)
                      /\ command.fan_level \in ThermostatFanLevelNames
                      /\ command.fan_level = Upper(req.data.fan.s)
                      /\ command.temperature = req.data.temp
                 ELSE command.state = S_OFF
        /\ resp = SuccessReply =>
              /\ trace = FullSequence
              /\ session = "closed"
              /\ command # NoCommand

C8_Witness ==
    /\ IsControl /\ Answered
    /\ req.data.state = Str(<<"o", "n">>)
    /\ resp = SuccessReply
    /\ trace = FullSequence
    /\ session = "closed"
    /\ command.mode = S_COOL /\ command.fan_level = S_LOW /\ command.swing = "ON"

\* ---------------------------------------------------------------- C9
\* C9: after a failure in the control sequence no step is repeated, no later
\* step runs (no command after a failed open, state fetch or remote lookup;
\* an unknown remote_id fails the lookup), a session that was opened is
\* closed before the answer, and the answer is 500, never success.
C9_FailurePropagates ==
    IsControl =>
        /\ \A x \in {"open", "get_breeze_state", "get_remote", "control", "close"} :
              Count(trace, x) <= 1
        /\ exc = "ConnectError" => (trace = <<>> /\ session = "none" /\ command = NoCommand)
        /\ exc = "StateError" =>
              /\ trace \in {<<"open", "get_breeze_state">>, <<"open", "get_breeze_state", "close">>}
              /\ command = NoCommand
        /\ exc = "RemoteError" =>
              /\ trace \in { <<"open", "get_breeze_state", "get_remote">>,
                             <<"open", "get_breeze_state", "get_remote", "close">> }
              /\ command = NoCommand
        /\ exc = "ControlError" =>
              trace \in { <<"open", "get_breeze_state", "get_remote", "control">>,
                          <<"open", "get_breeze_state", "get_remote", "control", "close">> }
        /\ exc # "" => resp \in {NoResponse, Response(500, Body("exception", exc, <<>>, NoVal))}
        /\ (exc # "" /\ Answered) =>
              /\ resp.status = 500
              /\ session \in {"none", "closed"}
              /\ Count(trace, "open") = 1 => session = "closed"
        /\ (Answered /\ args # NoArgs /\ req.data.remote_id = Str(UnknownRemote)) =>
              (resp.status = 500 /\ command = NoCommand)

C9_Witness ==
    /\ IsControl /\ Answered
    /\ exc = "RemoteError"
    /\ req.data.remote_id = Str(UnknownRemote)
    /\ resp.status = 500
    /\ session = "closed"
    /\ command = NoCommand

\* ---------------------------------------------------------------- C10
\* the request passed every check of the handler
PassedValidation ==
    /\ FourKeysPresent
    /\ \/ IsOff(req.data.state)
       \/ /\ IsOn(req.data.state)
          /\ \A k \in {"mode", "temp", "fan"} : req.data[k].t # "absent"
          /\ NamesOneOf(req.data.mode, ThermostatModeNames)
          /\ NamesOneOf(req.data.fan, ThermostatFanLevelNames)

\* C10: a control request answered 400 has opened no session, fetched no
\* state and sent no command; any device interaction belongs to a request
\* that passed every validation check; over all requests at most one command
\* is sent per validated request.
C10_ValidationBeforeDevice ==
    /\ nsent <= nvalid /\ nvalid <= nreq
    /\ Count(trace, "control") <= 1
    /\ (IsControl /\ Answered /\ resp.status = 400) =>
          (trace = <<>> /\ session = "none" /\ command = NoCommand /\ args = NoArgs)
    /\ (trace # <<>> \/ session # "none" \/ command # NoCommand \/ args # NoArgs) =>
          (IsControl /\ PassedValidation)
    /\ ~IsControl => (trace = <<>> /\ session = "none" /\ command = NoCommand)

C10_Witness ==
    /\ IsControl /\ Answered
    /\ IsOn(req.data.state)
    /\ req.data.fan.t = "absent"
    /\ resp.status = 400
    /\ trace = <<>>
    /\ nreq = 2 /\ nvalid = 1 /\ nsent = 1

\* ------------------------------------------------- what holds instead
\* with the attribute of the route
HasAttribute(d) == req.route = "state" \/ d.has_temperature

\* The part of C1 the code keeps: every 200 carries the attribute of the last
\* device reported that has it, the callback stored a result at most twice,
\* and when the first device reported has the attribute and no other device
\* was queued behind it the answer is that device's.
LastDeviceWithAttributeAnswered ==
    IsDiscovery =>
        /\ Cardinality({i \in 1..Len(seen) : HasAttribute(seen[i])}) <= 2
        /\ (Answered /\ resp.status = 200) =>
              \E i \in 1..Len(seen) :
                  /\ HasAttribute(seen[i])
                  /\ \A j \in (i + 1)..Len(seen) : ~HasAttribute(seen[j])
                  /\ resp = AttributeReply(seen[i])
        /\ (Answered /\ Len(seen) = 1 /\ HasAttribute(seen[1])) =>
              resp = AttributeReply(seen[1])

\* What the code keeps of C2: a request that saw no device is answered 404 at
\* the end of the window unless entering the bridge raised, which is answered
\* 500 before the window starts; a device was reported before every 200.
NoDeviceMeans404 ==
    /\ abandoned <= nreq
    /\ (IsDiscovery /\ Answered) =>
        /\ listening => Len(seen) >= 2
        /\ seen = <<>> =>
            \/ clock = ScanDelay /\ resp = NoDevicesReply
            \/ clock = 0 /\ resp = ServerError("OSError")
        /\ resp.status = 200 => seen # <<>>
        /\ resp.status = 500 => (clock = 0 /\ resp = ServerError("OSError"))
        /\ resp.status \in {200, 404, 500}

\* Reachable: two devices with the attribute were reported, the second during
\* the cleanup of asyncio.run; the answer is the second device's, not the
\* first's, and the bridge context is still entered when the request ends.
SecondDeviceOverwrites ==
    /\ IsDiscovery /\ Answered
    /\ Len(seen) = 2
    /\ HasAttribute(seen[1]) /\ HasAttribute(seen[2])
    /\ resp = AttributeReply(seen[2])
    /\ resp # AttributeReply(seen[1])
    /\ listening

\* Reachable: a device without the attribute was reported, its KeyError was
\* only logged, no other device came, and the answer is 404.
DeviceSeenYet404 ==
    /\ IsDiscovery /\ Answered
    /\ Len(seen) = 1 /\ ~HasAttribute(seen[1])
    /\ clock = ScanDelay
    /\ resp = NoDevicesReply

\* Reachable: a scan that follows an abandoned bridge fails to enter its own
\* bridge and is answered 500 at once, with no device reported.
BridgeEntryRaised ==
    /\ IsDiscovery /\ Answered
    /\ abandoned > 0
    /\ seen = <<>> /\ clock = 0
    /\ resp = ServerError("OSError")

\* The part of C3 the code keeps: no body, or an object that is empty or
\* lacks one of the four keys, is answered 400 listing the four keys.
ObjectMissingRequiredKeys ==
    (IsControl /\ Answered /\ req.kind \in {"none", "object"} /\ ~FourKeysPresent) =>
        resp = MissingRequiredReply

\* The part of C4 the code keeps: among string values of state, exactly the
\* casings of ON and OFF pass the state check.
StringStateCaseInsensitive ==
    (IsControl /\ Answered /\ FourKeysPresent /\ req.data.state.t = "str") =>
        /\ (IsOn(req.data.state) \/ IsOff(req.data.state)) => resp # InvalidStateReply
        /\ ~(IsOn(req.data.state) \/ IsOff(req.data.state)) => resp = InvalidStateReply

\* The part of C7 the code keeps: a request rejected for a missing key or an
\* unknown state string is answered 400 with an error body.
MissingFieldsAnswered400 ==
    ( /\ IsControl /\ Answered /\ req.kind \in {"none", "object"}
      /\ \/ ~FourKeysPresent
         \/ req.data.state.t = "str" /\ ~IsOn(req.data.state) /\ ~IsOff(req.data.state)
         \/ IsOn(req.data.state) /\ \E k \in {"mode", "temp", "fan"} : req.data[k].t = "absent" ) =>
        (resp.status = 400 /\ resp.body.key = "error")

====
